---- MODULE Spec2Model ----
(***************************************************************************)
(* Model of the coin flip simulator (script.js): the Coin integrator       *)
(* (Coin.update, Coin.determineResult) and the run orchestration           *)
(* (flipOnce, run100Times/runSingleFlip, runChaosDemo, reset, clearStats,  *)
(* animate).                                                               *)
(*                                                                         *)
(* JavaScript numbers are modelled in fixed point:                         *)
(*   lengths in mm, velocities in mm/s, accelerations in mm/s^2,           *)
(*   times in ms, restitution and drag in thousandths,                     *)
(*   angles in 1/QuarterTurn of a quarter turn (pi/2), angular velocity    *)
(*   in those units per second.                                            *)
(* Products are rounded to nearest (RDiv).  NaN is a distinguished value   *)
(* that every arithmetic operation propagates and every comparison         *)
(* rejects, as IEEE 754 does.                                              *)
(*                                                                         *)
(* A handler runs to completion, so each handler, timer callback and       *)
(* animation frame is one action; the continuation of run100Times after    *)
(* its await is part of the action of the timer that resolves the promise. *)
(* Drawing, the canvas, the display options, the text of the batch button  *)
(* and the array trajectoryPoints (written, never read) carry no state the *)
(* handlers branch on and are left out.  What showResult and the chaos     *)
(* summary put on the screen is kept as the sequence "events".             *)
(***************************************************************************)
EXTENDS Integers, Sequences, FiniteSets, TLC

\* ------------------------------------------------------------------------
\* Bounds of the model
\* ------------------------------------------------------------------------

\* Number of runs (Coin generations) one behaviour of Spec may start;
\* SpecLong allows one more.
MaxRuns == 2

\* Number of flips counted before the batch starts in SpecBatch.
MaxPriorFlips == 1

\* Angles fed to determineResult in SpecDetermine range over
\* -MaxTurns .. MaxTurns full turns.
MaxTurns == 2

\* ------------------------------------------------------------------------
\* Program constants
\* ------------------------------------------------------------------------

\* const GRAVITY = 9.81 (m/s^2), here in mm/s^2
GRAVITY == 9810

\* const SCALE = 100 (pixels per meter)
SCALE == 100

\* canvasHeight = 500 (pixels)
canvasHeight == 500

\* canvasWidth = Math.max(600, rect.width - 40): the minimum width, in pixels
canvasWidth == 600

\* const quarterTurn = Math.PI / 2, in angle units
quarterTurn == 1000

\* the value of 2 * Math.PI in angle units
TwoPi == 4 * quarterTurn

\* this.trajectory.length < 1000
TrajectoryCap == 1000

\* for (let i = 0; i < 100; i++) in run100Times
BatchSize == 100

\* for (let i = 0; i < 8; i++) in runChaosDemo
ChaosSize == 8

\* ------------------------------------------------------------------------
\* Numbers
\* ------------------------------------------------------------------------

\* The IEEE 754 NaN that 0 / 0 produces.
NaN == -999999999

\* a / b rounded to the nearest integer, halves away from zero (b > 0).
RDiv(a, b) ==
    IF a >= 0 THEN (2 * a + b) \div (2 * b) ELSE -((2 * (-a) + b) \div (2 * b))

FAdd(a, b) == IF a = NaN \/ b = NaN THEN NaN ELSE a + b

\* a * num / den
FScale(a, num, den) == IF a = NaN \/ num = NaN THEN NaN ELSE RDiv(a * num, den)

FMul(a, b) == IF a = NaN \/ b = NaN THEN NaN ELSE a * b

FNeg(a) == IF a = NaN THEN NaN ELSE -a

FAbs(a) == IF a = NaN THEN NaN ELSE IF a < 0 THEN -a ELSE a

\* Comparisons with NaN are false.
FLt(a, b) == a # NaN /\ b # NaN /\ a < b

FGt(a, b) == a # NaN /\ b # NaN /\ a > b

RECURSIVE SqrtIter(_, _)
SqrtIter(n, x) ==
    LET y == (x + n \div x) \div 2
    IN  IF y >= x THEN x ELSE SqrtIter(n, y)

\* Math.sqrt on non-negative fixed-point squares: 0 exactly when n = 0.
Sqrt(n) == IF n = NaN THEN NaN ELSE IF n = 0 THEN 0 ELSE SqrtIter(n, n)

\* a / b in thousandths; 0 / 0 is NaN.
FRatio(a, b) ==
    IF a = NaN \/ b = NaN THEN NaN
    ELSE IF b = 0 THEN NaN
    ELSE RDiv(a * 1000, b)

\* JavaScript's % : the remainder has the sign of the dividend.
JsRem(a, b) == IF a >= 0 THEN a % b ELSE -((-a) % b)

\* Math.cos(angle * Math.PI / 180) in thousandths, for the launch angles used.
MathCos(deg) ==
    CASE deg = 60 -> 500
      [] deg = 75 -> 259
      [] deg = 89 -> 17
      [] OTHER -> 0

\* Math.sin(angle * Math.PI / 180) in thousandths, for the launch angles used.
MathSin(deg) ==
    CASE deg = 60 -> 866
      [] deg = 75 -> 966
      [] deg = 89 -> 1000
      [] OTHER -> 1000

Null == 0

\* ------------------------------------------------------------------------
\* class Coin
\* ------------------------------------------------------------------------

\* new Coin(x, y, params, colorIndex).  The field "run" is the identity of
\* the object: the number of the run that constructed it (with colorIndex
\* it tells every Coin object apart).
Coin(x, y, p, colorIndex, run) ==
    [ run             |-> run,
      x               |-> x,
      y               |-> y,
      vx              |-> RDiv(MathCos(p.angle) * p.velocity, 1000),
      vy              |-> -RDiv(MathSin(p.angle) * p.velocity, 1000),
      angle           |-> 0,
      angularVelocity |-> p.spin,
      radius          |-> 120,
      restitution     |-> p.restitution,
      drag            |-> p.drag,
      wind            |-> p.wind,
      isSettled       |-> FALSE,
      settleTimer     |-> 0,
      trajectory      |-> << >>,
      colorIndex      |-> colorIndex,
      result          |-> "null" ]

\* Mutant: the single remainder, which keeps the sign of a negative angle.
normalizedAngleNoWrap(angle) == JsRem(angle, TwoPi)

\* The angle normalized by the code's double remainder.
normalizedAngle(angle) == JsRem(JsRem(angle, TwoPi) + TwoPi, TwoPi)

\* Coin.determineResult
determineResult(c) ==
    LET n == normalizedAngle(c.angle)
    IN  IF n < quarterTurn \/ n > 3 * quarterTurn
        THEN [c EXCEPT !.result = "heads"]
        ELSE [c EXCEPT !.result = "tails"]

\* The ground line in mm: canvasHeight / SCALE - 0.05
groundY == RDiv(canvasHeight * 1000, SCALE) - 50

\* The right wall in mm: canvasWidth / SCALE
wallX == RDiv(canvasWidth * 1000, SCALE)

\* Mutant: at the cap the oldest sample makes room for the new one.
recordTrajectoryEvict(trajectory, x, y) ==
    IF Len(trajectory) < TrajectoryCap
    THEN Append(trajectory, [x |-> x, y |-> y])
    ELSE Append(Tail(trajectory), [x |-> x, y |-> y])

\* Coin.update, lines 84-86: if (this.trajectory.length < 1000) push({x, y})
recordTrajectory(trajectory, x, y) ==
    IF Len(trajectory) < TrajectoryCap
    THEN Append(trajectory, [x |-> x, y |-> y])
    ELSE trajectory

\* Coin.update, lines 61-86: gravity, drag, wind, position, rotation,
\* trajectory.
integrate(c, dt) ==
    LET vy1       == FAdd(c.vy, RDiv(GRAVITY * dt, 1000))
        speed     == Sqrt(FAdd(FMul(c.vx, c.vx), FMul(vy1, vy1)))
        dragForce == FScale(FScale(FMul(speed, speed), 1, 1000), c.drag, 2000)
        dragX     == FNeg(FScale(dragForce, FRatio(c.vx, speed), 1000))
        dragY     == FNeg(FScale(dragForce, FRatio(vy1, speed), 1000))
        vx2       == FAdd(c.vx, FScale(dragX, dt, 1000))
        vy2       == FAdd(vy1, FScale(dragY, dt, 1000))
        vx3       == FAdd(vx2, RDiv(c.wind * dt, 2000))
        x1        == FAdd(c.x, FScale(vx3, dt, 1000))
        y1        == FAdd(c.y, FScale(vy2, dt, 1000))
    IN  [c EXCEPT !.vx = vx3,
                  !.vy = vy2,
                  !.x = x1,
                  !.y = y1,
                  !.angle = c.angle + RDiv(c.angularVelocity * dt, 1000),
                  !.trajectory = recordTrajectory(c.trajectory, x1, y1)]

\* Mutant: the coin settles without its result being determined.
settleCheckNoResult(c, dt) ==
    IF FLt(FAbs(c.vy), 100) /\ FLt(FAbs(c.vx), 100)
    THEN LET t == c.settleTimer + dt
         IN  IF t > 500
             THEN [c EXCEPT !.settleTimer = t,
                            !.isSettled = TRUE,
                            !.vx = 0,
                            !.vy = 0,
                            !.angularVelocity = 0]
             ELSE [c EXCEPT !.settleTimer = t]
    ELSE [c EXCEPT !.settleTimer = 0]

\* Mutant: the settling coin keeps its spin.
settleCheckKeepsSpin(c, dt) ==
    IF FLt(FAbs(c.vy), 100) /\ FLt(FAbs(c.vx), 100)
    THEN LET t == c.settleTimer + dt
         IN  IF t > 500
             THEN determineResult([c EXCEPT !.settleTimer = t,
                                            !.isSettled = TRUE,
                                            !.vx = 0,
                                            !.vy = 0])
             ELSE [c EXCEPT !.settleTimer = t]
    ELSE [c EXCEPT !.settleTimer = 0]

\* Coin.update, lines 98-110: the settle check made on a ground contact.
settleCheck(c, dt) ==
    IF FLt(FAbs(c.vy), 100) /\ FLt(FAbs(c.vx), 100)
    THEN LET t == c.settleTimer + dt
         IN  IF t > 500
             THEN determineResult([c EXCEPT !.settleTimer = t,
                                            !.isSettled = TRUE,
                                            !.vx = 0,
                                            !.vy = 0,
                                            !.angularVelocity = 0])
             ELSE [c EXCEPT !.settleTimer = t]
    ELSE [c EXCEPT !.settleTimer = 0]

\* Coin.update, lines 88-111: ground collision.
groundCollision(c, dt) ==
    IF FGt(FAdd(c.y, c.radius), groundY)
    THEN settleCheck([c EXCEPT !.y = groundY - c.radius,
                               !.vy = FNeg(FScale(c.vy, c.restitution, 1000)),
                               !.vx = FScale(c.vx, 95, 100),
                               !.angularVelocity = RDiv(c.angularVelocity * 9, 10)],
                     dt)
    ELSE c

\* Mutant: the walls reflect vx but leave the coin where it is.
wallCollisionsNoClamp(c) ==
    LET l == IF FLt(FAdd(c.x, -c.radius), 0)
             THEN [c EXCEPT !.vx = FNeg(FScale(c.vx, 8, 10))]
             ELSE c
    IN  IF FGt(FAdd(l.x, l.radius), wallX)
        THEN [l EXCEPT !.vx = FNeg(FScale(l.vx, 8, 10))]
        ELSE l

\* Coin.update, lines 113-121: wall collisions.
wallCollisions(c) ==
    LET l == IF FLt(FAdd(c.x, -c.radius), 0)
             THEN [c EXCEPT !.x = c.radius, !.vx = FNeg(FScale(c.vx, 8, 10))]
             ELSE c
    IN  IF FGt(FAdd(l.x, l.radius), wallX)
        THEN [l EXCEPT !.x = wallX - l.radius, !.vx = FNeg(FScale(l.vx, 8, 10))]
        ELSE l

\* Mutant: no early return for a settled coin, and isSettled follows the
\* settle timer on every step.
updateNoGuard(c, dt) ==
    LET n == wallCollisions(groundCollision(integrate(c, dt), dt))
    IN  [n EXCEPT !.isSettled = n.settleTimer > 500]

\* Coin.update(dt), dt in ms
update(c, dt) ==
    IF c.isSettled THEN c
    ELSE wallCollisions(groundCollision(integrate(c, dt), dt))

\* ------------------------------------------------------------------------
\* State
\* ------------------------------------------------------------------------

VARIABLES
    params,          \* let params = {height, velocity, spin, angle, wind, restitution, drag}
    coin,            \* let coin: Null or the identity (run) of the Coin it refers to
    chaosCoins,      \* let chaosCoins: the active collection of Coin objects
    isSimulating,    \* let isSimulating
    stats,           \* let stats = {total, heads, tails}
    buttonDisabled,  \* document.getElementById('run100').disabled
    loopI,           \* the loop variable i of run100Times
    checkInterval,   \* TRUE while runSingleFlip's setInterval is armed
    resolveTimer,    \* TRUE while setTimeout(resolve, 100) is pending
    runCount,        \* number of runs started so far (identity of the next Coin)
    runLimit,        \* bound on runCount for this behaviour
    events,          \* the results shown so far: showResult calls and chaos summaries
    aborted,         \* history: runs discarded by reset() with an unsettled entity
    batchRun,        \* history: the run constructed by the latest runSingleFlip
    batchStartTotal, \* history: stats.total when run100Times started, -1 before
    dt,              \* const dt of the latest animate() call, 0 before the first
    frameBudget      \* frames left to a behaviour that draws irregular frame times

vars ==
    << params, coin, chaosCoins, isSimulating, stats, buttonDisabled, loopI,
       checkInterval, resolveTimer, runCount, runLimit, events, aborted,
       batchRun, batchStartTotal, dt, frameBudget >>

\* let stats = { total: 0, heads: 0, tails: 0 }
zeroStats == [total |-> 0, heads |-> 0, tails |-> 0]

\* The parameter set as declared (lines 23-31): height 1.5 m, velocity 5 m/s,
\* spin 20 rad/s, angle 75 degrees, wind 0, restitution 0.6, drag 0.005.
defaultParams ==
    [height |-> 1500, velocity |-> 5000, spin |-> 12732, angle |-> 75,
     wind |-> 0, restitution |-> 600, drag |-> 5]

\* The sliders at their lower ends (0.5 m, 2 m/s) with a near-vertical throw.
lowParams ==
    [height |-> 500, velocity |-> 2000, spin |-> 12732, angle |-> 89,
     wind |-> 0, restitution |-> 100, drag |-> 5]

\* Values the slider input handler delivers (parseFloat(e.target.value)).
SliderValues ==
    [height |-> {500}, velocity |-> {2000}, spin |-> {12732}, angle |-> {89},
     wind |-> {0}, restitution |-> {100, 600}, drag |-> {5}]

\* Host frame intervals in ms (currentTime - lastTime; lastTime is always the
\* previous frame's currentTime): a host running at 50 frames per second and
\* a slower one, whose interval animate caps.
ElapsedMs == {20, 33}

Min(a, b) == IF a < b THEN a ELSE b

\* const dt = Math.min((currentTime - lastTime) / 1000, 0.02), in ms
frameDt(elapsed) == Min(elapsed, 20)

startX == RDiv(canvasWidth * 1000, 2 * SCALE)

startY(p) == RDiv(canvasHeight * 1000, SCALE) - p.height

\* Runs with an entity that has not settled, in the active collection.
Unsettled ==
    { chaosCoins[k].run : k \in { j \in DOMAIN chaosCoins : ~chaosCoins[j].isSettled } }

\* The Coin object the global coin refers to.
coinObj == CHOOSE c \in { chaosCoins[k] : k \in DOMAIN chaosCoins } : c.run = coin

InitCommon ==
    /\ coin = Null
    /\ isSimulating = FALSE
    /\ buttonDisabled = FALSE
    /\ loopI = 0
    /\ checkInterval = FALSE
    /\ resolveTimer = FALSE
    /\ runCount = 0
    /\ events = << >>
    /\ aborted = {}
    /\ batchRun = Null
    /\ batchStartTotal = -1
    /\ dt = 0
    /\ frameBudget = 0

Init ==
    /\ InitCommon
    /\ chaosCoins = << >>
    /\ params \in { [lowParams EXCEPT !.restitution = r] : r \in SliderValues.restitution }
    /\ stats = zeroStats
    /\ runLimit = MaxRuns

\* ------------------------------------------------------------------------
\* Handlers
\* ------------------------------------------------------------------------

\* Mutant: the coins read restitution, drag and wind from the live params.
sliderInputLive(param, value) ==
    /\ value # params[param]
    /\ params' = [params EXCEPT ![param] = value]
    /\ chaosCoins' = [ k \in DOMAIN chaosCoins |->
                         IF param \in {"restitution", "drag", "wind"}
                         THEN [chaosCoins[k] EXCEPT ![param] = value]
                         ELSE chaosCoins[k] ]
    /\ UNCHANGED << coin, isSimulating, stats, buttonDisabled, loopI,
                    checkInterval, resolveTimer, runCount, runLimit, events,
                    aborted, batchRun, batchStartTotal, dt, frameBudget >>

\* slider 'input' listener: params[param] = parseFloat(e.target.value)
sliderInput(param, value) ==
    /\ value # params[param]
    /\ params' = [params EXCEPT ![param] = value]
    /\ UNCHANGED << coin, chaosCoins, isSimulating, stats, buttonDisabled, loopI,
                    checkInterval, resolveTimer, runCount, runLimit, events,
                    aborted, batchRun, batchStartTotal, dt, frameBudget >>

\* Mutant: reset that forgets the collection and the active flag.
resetKeepsRun ==
    /\ coin' = Null
    /\ aborted' = aborted \cup Unsettled
    /\ UNCHANGED << params, chaosCoins, isSimulating, stats, buttonDisabled, loopI,
                    checkInterval, resolveTimer, runCount, runLimit, events,
                    batchRun, batchStartTotal, dt, frameBudget >>

\* reset()
reset ==
    /\ coin' = Null
    /\ chaosCoins' = << >>
    /\ isSimulating' = FALSE
    /\ aborted' = aborted \cup Unsettled
    /\ UNCHANGED << params, stats, buttonDisabled, loopI, checkInterval,
                    resolveTimer, runCount, runLimit, events, batchRun,
                    batchStartTotal, dt, frameBudget >>

\* flipOnce()
flipOnce ==
    IF isSimulating
    THEN UNCHANGED vars
    ELSE /\ runCount < runLimit
         /\ runCount' = runCount + 1
         /\ aborted' = aborted \cup Unsettled
         /\ coin' = runCount + 1
         /\ chaosCoins' = << Coin(startX, startY(params), params, 0, runCount + 1) >>
         /\ isSimulating' = TRUE
         /\ UNCHANGED << params, stats, buttonDisabled, loopI, checkInterval,
                         resolveTimer, runLimit, events, batchRun, batchStartTotal,
                         dt, frameBudget >>

\* runSingleFlip(): the promise executor (reset, new Coin, setInterval).
runSingleFlip ==
    /\ runCount < runLimit
    /\ runCount' = runCount + 1
    /\ aborted' = aborted \cup Unsettled
    /\ coin' = runCount + 1
    /\ chaosCoins' = << Coin(startX, startY(params), params, 0, runCount + 1) >>
    /\ isSimulating' = TRUE
    /\ checkInterval' = TRUE
    /\ batchRun' = runCount + 1

\* run100Times(), up to the first await.  A disabled button dispatches no
\* click, so the handler runs only while the button is enabled.
run100Times ==
    /\ ~buttonDisabled
    /\ IF isSimulating
       THEN UNCHANGED vars
       ELSE /\ buttonDisabled' = TRUE
            /\ loopI' = 0
            /\ batchStartTotal' = stats.total
            /\ runSingleFlip
            /\ UNCHANGED << params, stats, resolveTimer, runLimit, events, dt, frameBudget >>

\* Mutant: the poll only looks for a coin.
pollAnyCoin == coin # Null

\* The condition of the polling interval: coin && coin.isSettled
pollSettled == coin # Null /\ coinObj.isSettled

\* The setInterval callback of runSingleFlip.
intervalCallback ==
    /\ checkInterval
    /\ IF pollSettled
       THEN /\ checkInterval' = FALSE
            /\ resolveTimer' = TRUE
            /\ UNCHANGED << params, coin, chaosCoins, isSimulating, stats,
                            buttonDisabled, loopI, runCount, runLimit, events,
                            aborted, batchRun, batchStartTotal, dt, frameBudget >>
       ELSE UNCHANGED vars

\* Mutant: the loop stops one run early.
loopStopsEarly(i) == i < BatchSize - 1

\* The loop condition of run100Times: i < 100
loopContinues(i) == i < BatchSize

\* setTimeout(resolve, 100) fires: the await in run100Times returns, the
\* loop advances and either starts the next runSingleFlip or ends the batch.
resolveTimeout ==
    /\ resolveTimer
    /\ resolveTimer' = FALSE
    /\ IF loopContinues(loopI + 1)
       THEN /\ loopI' = loopI + 1
            /\ runSingleFlip
            /\ UNCHANGED << params, stats, buttonDisabled, runLimit, events,
                            batchStartTotal, dt, frameBudget >>
       ELSE /\ loopI' = 0
            /\ buttonDisabled' = FALSE
            /\ UNCHANGED << params, coin, chaosCoins, isSimulating, stats,
                            checkInterval, runCount, runLimit, events, aborted,
                            batchRun, batchStartTotal, dt, frameBudget >>

\* Mutant: the variation runs the other way, fastest coin first.
chaosParamsReversed(p, k) ==
    [p EXCEPT !.velocity = RDiv(p.velocity * (1000 - 2 * k + 7), 1000)]

\* const variation = 1 + (i - 3.5) * 0.002; velocity: params.velocity * variation
chaosParams(p, k) ==
    [p EXCEPT !.velocity = RDiv(p.velocity * (1000 + 2 * k - 7), 1000)]

\* Mutant: runChaosDemo without its call of reset(): the global coin keeps
\* referring to the coin of the run before.
runChaosDemoNoReset ==
    IF isSimulating
    THEN UNCHANGED vars
    ELSE /\ runCount < runLimit
         /\ runCount' = runCount + 1
         /\ aborted' = aborted \cup Unsettled
         /\ chaosCoins' = [ k \in 1..ChaosSize |->
                              Coin(startX, startY(params), chaosParams(params, k - 1),
                                   k - 1, runCount + 1) ]
         /\ isSimulating' = TRUE
         /\ UNCHANGED << params, coin, stats, buttonDisabled, loopI, checkInterval,
                         resolveTimer, runLimit, events, batchRun, batchStartTotal,
                         dt, frameBudget >>

\* runChaosDemo()
runChaosDemo ==
    IF isSimulating
    THEN UNCHANGED vars
    ELSE /\ runCount < runLimit
         /\ runCount' = runCount + 1
         /\ aborted' = aborted \cup Unsettled
         /\ coin' = Null
         /\ chaosCoins' = [ k \in 1..ChaosSize |->
                              Coin(startX, startY(params), chaosParams(params, k - 1),
                                   k - 1, runCount + 1) ]
         /\ isSimulating' = TRUE
         /\ UNCHANGED << params, stats, buttonDisabled, loopI, checkInterval,
                         resolveTimer, runLimit, events, batchRun, batchStartTotal,
                         dt, frameBudget >>

\* Mutant: clearStats that also stops the run.
clearStatsAndStop ==
    /\ stats' = zeroStats
    /\ isSimulating' = FALSE
    /\ UNCHANGED << params, coin, chaosCoins, buttonDisabled, loopI,
                    checkInterval, resolveTimer, runCount, runLimit, events,
                    aborted, batchRun, batchStartTotal, dt, frameBudget >>

\* clearStats()
clearStats ==
    /\ stats' = zeroStats
    /\ UNCHANGED << params, coin, chaosCoins, isSimulating, buttonDisabled, loopI,
                    checkInterval, resolveTimer, runCount, runLimit, events,
                    aborted, batchRun, batchStartTotal, dt, frameBudget >>

\* Mutant: tails are not counted.
updateStatsHeadsOnly(s, result) ==
    IF result = "heads"
    THEN [s EXCEPT !.total = s.total + 1, !.heads = s.heads + 1]
    ELSE [s EXCEPT !.total = s.total + 1]

\* updateStats(result)
updateStats(s, result) ==
    IF result = "heads"
    THEN [s EXCEPT !.total = s.total + 1, !.heads = s.heads + 1]
    ELSE [s EXCEPT !.total = s.total + 1, !.tails = s.tails + 1]

\* The entry showResult(result) leaves on the result display.
resultEvent(c) ==
    [kind |-> c.result, run |-> c.run,
     heads |-> IF c.result = "heads" THEN 1 ELSE 0,
     tails |-> IF c.result = "tails" THEN 1 ELSE 0]

\* The chaos demo summary: results.filter(r => r === 'heads').length, etc.
chaosEvent(coins) ==
    [kind |-> "chaos", run |-> coins[1].run,
     heads |-> Cardinality({ k \in DOMAIN coins : coins[k].result = "heads" }),
     tails |-> Cardinality({ k \in DOMAIN coins : coins[k].result = "tails" })]

\* Mutant: the result of the first coin is shown for any collection.
showsResultAnyLength(coins) == Len(coins) >= 1 /\ coins[1].result # "null"

\* if (chaosCoins.length === 1 && chaosCoins[0].result)
showsResult(coins) == Len(coins) = 1 /\ coins[1].result # "null"

\* Mutant: the active flag is left set when the run finishes.
simulatingLeftSet == TRUE

\* isSimulating after a tick that found allSettled (line 508).
simulatingAfterAllSettled == FALSE

\* animate(): one animation frame, elapsed ms after the previous one
\* (elapsed = currentTime - lastTime).
animateFrame(elapsed) ==
    /\ dt' = frameDt(elapsed)
    /\ IF isSimulating /\ Len(chaosCoins) > 0
       THEN /\ chaosCoins' = [ k \in DOMAIN chaosCoins |->
                                 update(chaosCoins[k], frameDt(elapsed)) ]
            /\ IF \A k \in DOMAIN chaosCoins' : chaosCoins'[k].isSettled
               THEN /\ isSimulating' = simulatingAfterAllSettled
                    /\ stats' = IF showsResult(chaosCoins')
                                THEN updateStats(stats, chaosCoins'[1].result)
                                ELSE stats
                    /\ events' =
                           LET shown == IF showsResult(chaosCoins')
                                        THEN Append(events, resultEvent(chaosCoins'[1]))
                                        ELSE events
                           IN  IF Len(chaosCoins') > 1
                               THEN Append(shown, chaosEvent(chaosCoins'))
                               ELSE shown
               ELSE UNCHANGED << isSimulating, stats, events >>
       ELSE UNCHANGED << chaosCoins, isSimulating, stats, events >>
    /\ UNCHANGED << params, coin, buttonDisabled, loopI, checkInterval,
                    resolveTimer, runCount, runLimit, aborted, batchRun,
                    batchStartTotal >>

\* A frame while the tab shows the page at its regular rate.
animate(elapsed) ==
    /\ animateFrame(elapsed)
    /\ UNCHANGED frameBudget

Next ==
    \/ \E param \in DOMAIN SliderValues : \E value \in SliderValues[param] :
          sliderInput(param, value)
    \/ flipOnce
    \/ run100Times
    \/ runChaosDemo
    \/ reset
    \/ clearStats
    \/ \E elapsed \in ElapsedMs : animate(elapsed)
    \/ intervalCallback
    \/ resolveTimeout

Spec == Init /\ [][Next]_vars

\* The same program with room for one more run: a batch run, a run of the
\* user's and the batch run after it.
InitLong ==
    /\ InitCommon
    /\ chaosCoins = << >>
    /\ params \in { [lowParams EXCEPT !.restitution = r] : r \in SliderValues.restitution }
    /\ stats = zeroStats
    /\ runLimit = MaxRuns + 1

SpecLong == InitLong /\ [][Next]_vars

\* ------------------------------------------------------------------------
\* A batch with no other button handler firing (run100Times, frames, timers)
\* ------------------------------------------------------------------------

InitBatch ==
    /\ InitCommon
    /\ chaosCoins = << >>
    /\ params \in { defaultParams, lowParams }
    /\ stats \in { [total |-> h + t, heads |-> h, tails |-> t] :
                     h \in 0..MaxPriorFlips, t \in 0..MaxPriorFlips }
    /\ runLimit = BatchSize

NextBatch ==
    \/ run100Times
    \/ \E elapsed \in ElapsedMs : animate(elapsed)
    \/ intervalCallback
    \/ resolveTimeout

SpecBatch == InitBatch /\ [][NextBatch]_vars

\* ------------------------------------------------------------------------
\* One batch with a user at the other buttons, under fair scheduling of the
\* animation frames and of the batch's timers.  The user acts before the
\* batch and during its first MaxUserRuns flips, and starts at most
\* MaxUserRuns runs.
\* ------------------------------------------------------------------------

MaxUserRuns == 1

\* The batch has run to its end: the button is enabled again.
batchCompleted == batchStartTotal # -1 /\ ~buttonDisabled

\* Flips the batch has started so far (the loop variable i counts from 0).
batchFlips == IF buttonDisabled THEN loopI + 1 ELSE 0

userMayAct == ~batchCompleted /\ loopI < MaxUserRuns

userMayStart == userMayAct /\ runCount - batchFlips < MaxUserRuns

InitFair ==
    /\ InitCommon
    /\ chaosCoins = << >>
    /\ params = lowParams
    /\ stats = zeroStats
    /\ runLimit = BatchSize + MaxUserRuns

NextFair ==
    \/ batchStartTotal = -1 /\ run100Times
    \/ userMayStart /\ flipOnce
    \/ userMayStart /\ runChaosDemo
    \/ userMayAct /\ reset
    \/ userMayAct /\ clearStats
    \/ \E elapsed \in ElapsedMs : animate(elapsed)
    \/ intervalCallback
    \/ resolveTimeout

\* A frame would change the state: it is the first one, or animate() finds
\* coins to step (isSimulating and a collection that is not empty).
frameDue ==
    \/ \E elapsed \in ElapsedMs : dt # frameDt(elapsed)
    \/ isSimulating /\ Len(chaosCoins) > 0

\* The step is such a frame: dt was set, or the coins of the running run
\* were stepped.
frameTaken ==
    \/ dt' # dt
    \/ /\ isSimulating /\ Len(chaosCoins) > 0
       /\ Len(chaosCoins') = Len(chaosCoins)
       /\ chaosCoins'[1].run = chaosCoins[1].run
       /\ chaosCoins' # chaosCoins

\* requestAnimationFrame, setInterval and setTimeout callbacks are run by the
\* event loop whenever they are due; clicks may or may not come.  The weak
\* fairness of the frames is written out, with frameDue for the enabling
\* condition of a frame that changes the state.
SpecFair ==
    /\ InitFair
    /\ [][NextFair]_vars
    /\ ([]<>(~frameDue) \/ []<><<frameTaken>>_vars)
    /\ WF_vars(intervalCallback)
    /\ WF_vars(resolveTimeout)

\* ------------------------------------------------------------------------
\* determineResult applied to a coin of any accumulated angle
\* ------------------------------------------------------------------------

InitDetermine ==
    /\ InitCommon
    /\ params = defaultParams
    /\ stats = zeroStats
    /\ runLimit = 0
    /\ \E a \in (-MaxTurns * TwoPi)..(MaxTurns * TwoPi) :
          chaosCoins = << [Coin(startX, startY(params), params, 0, 1)
                             EXCEPT !.angle = a] >>

\* this.determineResult() on the coin
classify ==
    /\ chaosCoins[1].result = "null"
    /\ chaosCoins' = << determineResult(chaosCoins[1]) >>
    /\ UNCHANGED << params, coin, isSimulating, stats, buttonDisabled, loopI,
                    checkInterval, resolveTimer, runCount, runLimit, events,
                    aborted, batchRun, batchStartTotal, dt, frameBudget >>

SpecDetermine == InitDetermine /\ [][classify]_vars

\* ------------------------------------------------------------------------
\* One run of a single coin under irregular frame times.  The run is taken
\* up at its launch, in flight or on the ground, and the host delivers its
\* next frames after any interval Date.now() can produce.
\* ------------------------------------------------------------------------

\* Frames of a behaviour of SpecStep.
MaxFrames == 2

\* currentTime - lastTime in ms: the clock set back between two frames, two
\* frames within the same millisecond, a 144 Hz display, 50 frames per
\* second and a slower host.
StepElapsedMs == {-16, 0, 7, 20, 33}

\* A parameter set with launch velocity 0 (the constructor and update accept
\* any number; only the slider of the page starts at 2 m/s).
stillParams == [lowParams EXCEPT !.velocity = 0]

\* A light wind of 0.5 m/s and the default restitution.
breezeParams == [lowParams EXCEPT !.wind = 500, !.restitution = 600]

\* The trajectory of a coin that has been stepped n times while unsettled
\* and is now at (x, y).
pastTrajectory(n, x, y) ==
    [ k \in 1..Min(n, TrajectoryCap) |-> [x |-> x, y |-> y - (n - k)] ]

\* A coin of run 1 as flipOnce constructs it.
launchCoins ==
    { Coin(startX, startY(p), p, 0, 1) : p \in {lowParams, defaultParams, stillParams} }

\* The coin in flight, in mid-field or about to reach a wall, after 30 steps
\* or after as many as the trajectory holds.
flightCoins ==
    { [Coin(startX, startY(lowParams), lowParams, 0, 1)
         EXCEPT !.x = x, !.y = 3000, !.vx = vx, !.vy = vy,
                !.angle = 382, !.trajectory = pastTrajectory(n, x, 3000)] :
      x \in {130, startX, wallX - 130}, vx \in {-3000, 3000},
      vy \in {-1000, 1000}, n \in {30, TrajectoryCap - 1, TrajectoryCap} }

\* The coin leaving the ground after a contact: y was clamped to the ground
\* and vy reflected.  A settle timer that has started implies that contact
\* found both speeds under 0.1 m/s.
groundCoins ==
    { c \in { [Coin(startX, startY(p), p, 0, 1)
                EXCEPT !.x = x, !.y = groundY - 120, !.vx = vx, !.vy = vy,
                       !.angle = 382, !.angularVelocity = 0, !.settleTimer = t,
                       !.trajectory = pastTrajectory(30, x, groundY - 120)] :
              p \in {lowParams, breezeParams}, x \in {120, startX},
              vx \in {0, 50, 99, 300}, vy \in {-300, -90, -50},
              t \in {0, 490} } :
        c.settleTimer = 0 \/ (c.vx < 100 /\ c.vy > -100) }

StepCoins == launchCoins \cup flightCoins \cup groundCoins

InitStep ==
    /\ params = lowParams
    /\ coin = 1
    /\ chaosCoins \in { << c >> : c \in StepCoins }
    /\ isSimulating = TRUE
    /\ stats = zeroStats
    /\ buttonDisabled = FALSE
    /\ loopI = 0
    /\ checkInterval = FALSE
    /\ resolveTimer = FALSE
    /\ runCount = 1
    /\ runLimit = 1
    /\ events = << >>
    /\ aborted = {}
    /\ batchRun = Null
    /\ batchStartTotal = -1
    /\ dt = 0
    /\ frameBudget = MaxFrames

\* animate() called by the host elapsed ms after the previous frame.
stepFrame(elapsed) ==
    /\ frameBudget > 0
    /\ frameBudget' = frameBudget - 1
    /\ animateFrame(elapsed)

NextStep == \E elapsed \in StepElapsedMs : stepFrame(elapsed)

SpecStep == InitStep /\ [][NextStep]_vars

\* ------------------------------------------------------------------------
\* Properties
\* ------------------------------------------------------------------------

Coins == { chaosCoins[k] : k \in DOMAIN chaosCoins }

\* Two records are the same Coin object.
SameCoin(c, d) == c.run = d.run /\ c.colorIndex = d.colorIndex

\* Number of result (heads/tails) entries shown for run r.
ResultEvents(r) ==
    Cardinality({ n \in DOMAIN events : events[n].run = r /\ events[n].kind # "chaos" })

\* C1: in every reachable state the aggregate counters satisfy
\* heads + tails = total.
C1_HeadsPlusTails == stats.heads + stats.tails = stats.total

C1_Witness == stats.heads >= 1 /\ stats.tails >= 1 /\ C1_HeadsPlusTails

\* C2: settled is monotonic: a Coin that is settled is still settled after
\* any step that keeps it in the collection.
C2_SettledMonotonic ==
    [][ \A k \in DOMAIN chaosCoins : \A j \in DOMAIN chaosCoins' :
          (SameCoin(chaosCoins[k], chaosCoins'[j]) /\ chaosCoins[k].isSettled)
             => chaosCoins'[j].isSettled ]_vars

\* A settled coin of a run that is still ticking: another coin of the run
\* has been stepped more often than the settled one.
C2_Witness ==
    /\ isSimulating
    /\ \E c \in Coins : \E d \in Coins :
          /\ c.isSettled
          /\ ~d.isSettled
          /\ Len(d.trajectory) > Len(c.trajectory)

\* C3: a Coin's result is null exactly while it is not settled; a settled
\* Coin's result is heads or tails and no later step changes it.
C3_ResultIffSettled ==
    /\ [](\A c \in Coins :
             /\ (c.result = "null") <=> ~c.isSettled
             /\ c.isSettled => c.result \in {"heads", "tails"})
    /\ [][ \A k \in DOMAIN chaosCoins : \A j \in DOMAIN chaosCoins' :
             (SameCoin(chaosCoins[k], chaosCoins'[j]) /\ chaosCoins[k].isSettled)
                => chaosCoins'[j].result = chaosCoins[k].result ]_vars

C3_Witness ==
    /\ isSimulating
    /\ \E c \in Coins : \E d \in Coins :
          /\ c.isSettled
          /\ c.result = "heads"
          /\ d.result = "null"
          /\ Len(d.trajectory) > Len(c.trajectory)

C5_OneResultPerRun ==
    /\ [](/\ \A r \in 1..runCount : ResultEvents(r) <= 1
          /\ (Len(chaosCoins) = 1 /\ chaosCoins[1].isSettled) =>
                \E n \in DOMAIN events :
                   /\ events[n].run = chaosCoins[1].run
                   /\ events[n].kind = chaosCoins[1].result)
    /\ [][ LET shown == /\ events' # events
                        /\ events'[Len(events')].kind # "chaos"
           IN  /\ shown =>
                    /\ events' = Append(events, events'[Len(events')])
                    /\ stats' = updateStats(stats, events'[Len(events')].kind)
               /\ (stats' # stats /\ stats' # zeroStats) => shown ]_vars

\* A single run finished several frames ago and counted once.
C5_Witness ==
    /\ ~isSimulating
    /\ Len(chaosCoins) = 1
    /\ chaosCoins[1].isSettled
    /\ chaosCoins[1].result = "heads"
    /\ ResultEvents(chaosCoins[1].run) = 1
    /\ stats = [total |-> 1, heads |-> 1, tails |-> 0]
    /\ params.restitution # chaosCoins[1].restitution

\* C6: when a batch started by run100Times has completed with no other
\* button handler firing, stats.total is exactly 100 above its value at the
\* start of the batch.
C6_BatchAddsHundred ==
    (batchStartTotal # -1 /\ ~buttonDisabled) =>
        stats.total = batchStartTotal + BatchSize

C6_Witness ==
    /\ batchStartTotal = 1
    /\ ~buttonDisabled
    /\ stats.total = batchStartTotal + BatchSize

\* C7: in batch mode the entity of run k+1 is constructed only after the
\* entity of run k has settled and its statistics update has been applied,
\* and entities of two runs never coexist in the active collection.
C7_BatchSequential ==
    /\ [](\A c \in Coins : \A d \in Coins : c.run = d.run)
    /\ [][ (resolveTimer /\ ~resolveTimer' /\ batchRun' # batchRun) =>
              ResultEvents(batchRun) = 1 ]_vars

\* C8: while the collection holds a divergence run the counters keep their
\* values, unless clearStats zeroes them.
C8_ChaosKeepsStats ==
    [][ Len(chaosCoins) = ChaosSize =>
           \/ stats' = stats
           \/ stats' = zeroStats /\ chaosCoins' = chaosCoins ]_vars

\* A divergence run that finished with both results, the counters untouched.
C8_Witness ==
    /\ Len(chaosCoins) = ChaosSize
    /\ ~isSimulating
    /\ \A c \in Coins : c.isSettled
    /\ \E n \in DOMAIN events : events[n].kind = "chaos" /\ events[n].run = chaosCoins[1].run
    /\ stats.total = 1

\* C9: a run aborted with an unsettled entity is gone from the collection,
\* never shows a result or a summary, and the step that aborts it changes
\* neither the display nor the counters; the reset button leaves the
\* orchestrator idle with an empty collection.
C9_AbortedNeverReported ==
    /\ [](\A r \in aborted :
             /\ \A n \in DOMAIN events : events[n].run # r
             /\ \A c \in Coins : c.run # r
             /\ coin # r)
    /\ [][ aborted' # aborted =>
              /\ events' = events
              /\ stats' = stats
              /\ runCount' = runCount =>
                    (chaosCoins' = << >> /\ ~isSimulating' /\ coin' = Null) ]_vars

\* A run was aborted and a later run has finished and been counted.
C9_Witness ==
    /\ aborted # {}
    /\ stats.total >= 1
    /\ ~isSimulating
    /\ Len(chaosCoins) = 1

\* C10: the counters change only by a shown result (plus one) or by
\* clearStats (to zero); clearStats changes nothing but the counters.
C10_StatsFrame ==
    [][ stats' # stats =>
           \/ /\ events' # events
              /\ stats' = updateStats(stats, events'[Len(events')].kind)
           \/ /\ stats' = zeroStats
              /\ UNCHANGED << params, coin, chaosCoins, isSimulating,
                              buttonDisabled, loopI, checkInterval, resolveTimer,
                              runCount, events >> ]_vars

\* The counters were cleared while a run was in flight.
C10_Witness ==
    /\ stats = zeroStats
    /\ \E n \in DOMAIN events : events[n].kind # "chaos"
    /\ isSimulating
    /\ \E c \in Coins : Len(c.trajectory) >= 1

\* A step of the model in which animate() stepped the coins of a run.
SteppedRun == frameBudget' # frameBudget /\ isSimulating /\ Len(chaosCoins) > 0

\* C11: every dt with which an entity is stepped is strictly positive and at
\* most 0.02 s (20 ms), whatever interval lies between two frames.
C11_DtPositive ==
    [][ SteppedRun => (dt' > 0 /\ dt' <= 20) ]_vars

\* The speed the drag term of Coin.update divides by is exactly 0 for coin c
\* stepped with d: vx is 0 and vy is 0 after gravity.
SpeedZeroAtDrag(c, d) ==
    ~c.isSettled /\ c.vx = 0 /\ FAdd(c.vy, RDiv(GRAVITY * d, 1000)) = 0

WellDefined(c) == c.x # NaN /\ c.y # NaN /\ c.vx # NaN /\ c.vy # NaN

\* C12: a step that finds the speed exactly 0 at the drag term leaves the
\* position and the velocity of the coin well-defined numbers.
C12_ZeroSpeedDefined ==
    [][ SteppedRun =>
          \A k \in DOMAIN chaosCoins :
             SpeedZeroAtDrag(chaosCoins[k], dt') => WellDefined(chaosCoins'[k]) ]_vars

\* The fields of a Coin other than its launch velocity (vx, vy) and the
\* colorIndex that tells the objects of one run apart.
SharedFields ==
    {"run", "x", "y", "angle", "angularVelocity", "radius", "restitution",
     "drag", "wind", "isSettled", "settleTimer", "trajectory", "result"}

\* C13: restitution, drag and wind of a Coin are the values params had when
\* it was constructed: they never change afterwards, a slider input changes
\* no field of any existing Coin, and the coins of a divergence run are
\* constructed alike in everything but their launch velocity.
C13_ParamsSnapshot ==
    /\ [][ \A c \in Coins : \A d \in Coins' :
              SameCoin(c, d) =>
                 /\ d.restitution = c.restitution
                 /\ d.drag = c.drag
                 /\ d.wind = c.wind
                 /\ (params' # params => d = c) ]_vars
    /\ [](\A c \in Coins : \A d \in Coins :
             /\ c.restitution = d.restitution /\ c.drag = d.drag /\ c.wind = d.wind
             /\ (c.trajectory = << >> /\ d.trajectory = << >>) =>
                   \A f \in SharedFields : c[f] = d[f])

\* A divergence run in flight, its coins launched at different speeds, after
\* the restitution slider was moved away from the value the coins hold.
C13_Witness ==
    /\ Len(chaosCoins) = ChaosSize
    /\ isSimulating
    /\ \A c \in Coins : Len(c.trajectory) > 0 /\ c.restitution # params.restitution
    /\ chaosCoins[1].vy # chaosCoins[ChaosSize].vy

\* C14: a trajectory never holds more than 1000 samples; a step of an
\* unsettled coin appends exactly one sample while it holds fewer, and leaves
\* a full trajectory as it is.
C14_TrajectoryCap ==
    /\ [](\A c \in Coins : Len(c.trajectory) <= TrajectoryCap)
    /\ [][ SteppedRun =>
             \A k \in DOMAIN chaosCoins :
                LET old == chaosCoins[k].trajectory
                    new == chaosCoins'[k].trajectory
                IN  ~chaosCoins[k].isSettled =>
                       IF Len(old) < TrajectoryCap
                       THEN Len(new) = Len(old) + 1 /\ SubSeq(new, 1, Len(old)) = old
                       ELSE new = old ]_vars

\* An unsettled coin with a full trajectory after two steps: the 1000th
\* sample was appended by the first or was there before it.
C14_Witness ==
    /\ frameBudget = 0
    /\ \E c \in Coins : ~c.isSettled /\ Len(c.trajectory) = TrajectoryCap

\* Coin c stepped with d, as it is when update reaches the wall checks.
BeforeWalls(c, d) == groundCollision(integrate(c, d), d)

\* C15: no coin is ever left reaching beyond a wall (x < radius, or
\* x + radius beyond the width), and a step whose integrated position
\* crossed a wall ends with the coin touching that wall and vx equal to
\* -0.8 times the vx it reached the wall with.
C15_WallClamp ==
    /\ [](\A c \in Coins :
             ~FLt(c.x, c.radius) /\ ~FGt(FAdd(c.x, c.radius), wallX))
    /\ [][ SteppedRun =>
             \A k \in DOMAIN chaosCoins :
                LET b == BeforeWalls(chaosCoins[k], dt')
                    d == chaosCoins'[k]
                IN  ~chaosCoins[k].isSettled =>
                       /\ FLt(FAdd(b.x, -b.radius), 0) =>
                             d.x = d.radius /\ d.vx = FNeg(FScale(b.vx, 8, 10))
                       /\ FGt(FAdd(b.x, b.radius), wallX) =>
                             d.x = wallX - d.radius /\ d.vx = FNeg(FScale(b.vx, 8, 10)) ]_vars

\* A coin in flight that has just bounced off the left wall, or one that
\* has bounced off the right wall.
C15_Witness ==
    /\ frameBudget = MaxFrames - 1
    /\ \E c \in Coins :
          /\ c.y < groundY - c.radius
          /\ \/ c.x = c.radius /\ c.vx > 2000
             \/ c.x = wallX - c.radius /\ c.vx < -2000

\* The square of the speed a coin was launched with.
SpeedSquared(c) == c.vx * c.vx + c.vy * c.vy

\* The step is the start of a divergence run (the only start that leaves
\* the global coin null).
ChaosStart == runCount' = runCount + 1 /\ coin' = Null

\* C16: a divergence run constructs exactly 8 coins; coin i (0-based) is
\* launched with params.velocity * (1 + (i - 3.5) * 0.002), that is with
\* params.velocity * (993 + 2 i) / 1000, and the launch speeds increase
\* strictly with i.
C16_ChaosLaunch ==
    [][ ChaosStart =>
          /\ Len(chaosCoins') = 8
          /\ \A i \in 0..7 :
                LET v == RDiv(params.velocity * (993 + 2 * i), 1000)
                IN  /\ chaosCoins'[i + 1].vx = RDiv(MathCos(params.angle) * v, 1000)
                    /\ chaosCoins'[i + 1].vy = -RDiv(MathSin(params.angle) * v, 1000)
                    /\ chaosCoins'[i + 1].colorIndex = i
          /\ \A i \in 1..7 :
                SpeedSquared(chaosCoins'[i]) < SpeedSquared(chaosCoins'[i + 1]) ]_vars

\* A divergence run just constructed from a velocity of 2 m/s: the slowest
\* coin leaves at 1.986 m/s and the fastest at 2.014 m/s.
C16_Witness ==
    /\ Len(chaosCoins) = ChaosSize
    /\ coin = Null
    /\ \A c \in Coins : c.trajectory = << >>
    /\ chaosCoins[1].vy = -1986
    /\ chaosCoins[ChaosSize].vy = -2014

\* C17: the rule of the README: a coin whose angle, normalized to one turn,
\* lies in [0, 90) or in [270, 360) degrees, 270 included, is heads, and one
\* whose angle lies in [90, 270) is tails.
C17_ReadmeRule ==
    \A c \in Coins :
       c.result # "null" =>
          LET n == normalizedAngle(c.angle)
          IN  c.result = (IF n < quarterTurn \/ n >= 3 * quarterTurn
                          THEN "heads" ELSE "tails")

\* |vx| >= 0.1 m/s or |vy| >= 0.1 m/s
AboveSettleSpeed(c) == FGt(FAbs(c.vx), 99) \/ FGt(FAbs(c.vy), 99)

\* C18: every step of an unsettled coin that ends with |vx| >= 0.1 or
\* |vy| >= 0.1 leaves settleTimer at 0, whether the coin touched the ground
\* in that step or not.
C18_TimerResets ==
    [][ SteppedRun =>
          \A k \in DOMAIN chaosCoins :
             ( /\ ~chaosCoins[k].isSettled
               /\ ~chaosCoins'[k].isSettled
               /\ AboveSettleSpeed(chaosCoins'[k]) ) =>
                  chaosCoins'[k].settleTimer = 0 ]_vars

\* C19: a settled coin has vx, vy and angularVelocity 0 from the end of the
\* step that settled it, and no later step changes any of its fields.
C19_SettledFrozen ==
    /\ [](\A c \in Coins :
             c.isSettled => c.vx = 0 /\ c.vy = 0 /\ c.angularVelocity = 0)
    /\ [][ \A c \in Coins : \A d \in Coins' :
              (SameCoin(c, d) /\ c.isSettled) => d = c ]_vars

\* A coin of a divergence run that settled, turned, at least three steps
\* before one of the others, which is still moving.
C19_Witness ==
    /\ isSimulating
    /\ \E c \in Coins : \E d \in Coins :
          /\ c.isSettled /\ c.angle # 0 /\ c.angularVelocity = 0
          /\ ~d.isSettled
          /\ Len(d.trajectory) >= Len(c.trajectory) + 3

\* C20: while isSimulating is true no run is started.  A start request that
\* is ignored leaves every variable as it is; one that is not ignored
\* constructs the coins of a new run (runCount grows) in place of the
\* collection of the running one.
C20_NoStartWhileSimulating ==
    [][ isSimulating => runCount' = runCount ]_vars

\* C21: a batch that has started eventually completes: the button that
\* run100Times disabled is enabled again.
C21_BatchCompletes == buttonDisabled ~> ~buttonDisabled

\* C22: in every state (after every handler and every frame) the collection
\* holds 0, 1 or 8 coins; while isSimulating is true it is not empty and
\* holds a coin that has not settled; and while the global coin is not null
\* the collection is that one coin.
C22_RunState ==
    /\ Len(chaosCoins) \in {0, 1, 8}
    /\ isSimulating =>
          Len(chaosCoins) > 0 /\ \E c \in Coins : ~c.isSettled
    /\ coin # Null =>
          Len(chaosCoins) = 1 /\ chaosCoins[1].run = coin /\ chaosCoins[1].colorIndex = 0

\* A divergence run that follows a single flip: some of its coins have
\* settled, others are still moving, and the global coin is null again.
C22_Witness ==
    /\ isSimulating
    /\ Len(chaosCoins) = ChaosSize
    /\ chaosCoins[1].run = 2
    /\ coin = Null
    /\ \E c \in Coins : c.isSettled
    /\ \E c \in Coins : ~c.isSettled

====
